---- MODULE Spec2Model ----
(***************************************************************************)
(* Akash Agent streaming path of the deploy-web console.                   *)
(*                                                                         *)
(*   upstream agent  ==>  relay handler (pages/api/akash-agent/stream.ts)  *)
(*                   ==>  sendStreamingMessage (hooks/useAkashAgent.ts)    *)
(*                                                                         *)
(* Text on the wire is a sequence of tokens.  A token stands for a         *)
(* fragment of JSON text: the opening part of an object (which fixes the   *)
(* value of "type" and of the field the hook reads), the closing brace, a  *)
(* blank, or a newline.  Chunk boundaries may fall between any two tokens. *)
(* The relay decodes what it reads with TextDecoder.decode(value,          *)
(* { stream: true }) and writes the decoded string, which the response     *)
(* encodes again; two more tokens stand for the lead and the continuation  *)
(* byte of a two-byte character.  The hook is modelled on text.            *)
(***************************************************************************)
EXTENDS Integers, Sequences, FiniteSets, TLC

\* ------------------------------------------------------------------ bounds
MaxLines == 3       \* lines in a stream payload

\* ------------------------------------------------------------------ tokens
Tok(t, has, v) == [t |-> t, has |-> has, v |-> v]
NL    == Tok("nl", FALSE, "")
SP    == Tok("sp", FALSE, "")
CLOSE == Tok("close", FALSE, "")

\* JSON text of one object: its opening fragment and the closing brace.
\* `has` tells whether the field read by the hook (action / response /
\* message) is present, `v` is its value (for an action: sequence_index).
Rec(t, has, v) == <<Tok(t, has, v), CLOSE>>

\* ------------------------------------------------------- string primitives
RECURSIVE IndexOfNL(_, _)
IndexOfNL(s, i) ==
  IF i > Len(s) THEN 0
  ELSE IF s[i] = NL THEN i ELSE IndexOfNL(s, i + 1)

\* String.prototype.split('\n'): always at least one segment.
RECURSIVE Split(_)
Split(s) ==
  LET i == IndexOfNL(s, 1) IN
  IF i = 0 THEN <<s>>
  ELSE <<SubSeq(s, 1, i - 1)>> \o Split(SubSeq(s, i + 1, Len(s)))

Front(s) == SubSeq(s, 1, Len(s) - 1)
Last(s)  == s[Len(s)]

\* String.prototype.trim()
RECURSIVE TrimLeft(_)
TrimLeft(s) == IF s # <<>> /\ Head(s) = SP THEN TrimLeft(Tail(s)) ELSE s
RECURSIVE TrimRight(_)
TrimRight(s) == IF s # <<>> /\ Last(s) = SP THEN TrimRight(Front(s)) ELSE s
Trim(s) == TrimRight(TrimLeft(s))

RecordTypes == {"action", "final_response", "error", "other"}

\* JSON.parse: succeeds on exactly one complete object, throws otherwise.
JSONParse(s) ==
  IF Len(s) = 2 /\ s[1].t \in RecordTypes /\ s[2] = CLOSE
  THEN [ok |-> TRUE, type |-> s[1].t, has |-> s[1].has, v |-> s[1].v]
  ELSE [ok |-> FALSE, type |-> "", has |-> FALSE, v |-> ""]

\* JavaScript truthiness of an optional string field.
Truthy(d) == d.has /\ d.v # ""

\* ------------------------------------------------------------------- state
VARIABLES
  \* sendStreamingMessage (one invocation)
  msg,            \* the message argument: "text" or "blank"
  hookPc,         \* "start" | "fetching" | "reading" | "resolved" | "rejected"
  connStatus,     \* agentConnectionStatusAtom
  buffer,         \* let buffer
  actionCount,    \* let actionCount
  finalResponse,  \* let finalResponse
  onActionLog,    \* the calls made to onAction: <<[action, count], ...>>
  throwsAt,       \* the counts at which the supplied onAction callback throws
  settled,        \* how many times the returned promise has been settled
  result,         \* the resolved value, or the message of the rejection
  \* the downstream response (relay -> browser)
  wire,           \* body text written by the server and not yet read
  received,       \* body text already handed to the hook by reader.read()
  resStatus,      \* HTTP status of the response, 0 while no head was sent
  resWrites,      \* the res.write / res.json calls: <<[kind, text], ...>>
  endCount,       \* how many times the response was ended
  \* the relay handler (one invocation)
  req,            \* the request it received
  baseUrlSet,     \* agent_config.base_url or one of the env variables is set
  relayPc,        \* "idle" | "fetch" | "read" | "done" | "detached"
  \* the upstream agent, as the relay's fetch sees it
  upKind,         \* "reject" | "non2xx" | "nobody" | "ok" | "hang"
  upChunks,       \* chunks the body still delivers
  upFate,         \* after the last chunk: "close" | "fail" | "hang"
  \* the exchanges, as the environment sees them
  requests,       \* requests sendStreamingMessage has sent to the API route
  fetches,        \* fetch calls the relay has made
  upRead,         \* the chunks reader.read() has handed to the relay
  decoderPending, \* the relay's TextDecoder holds back a lead byte
  elapsed,        \* the timeout ceiling of the request has passed
  call2,          \* a second, concurrent sendStreamingMessage invocation
  \* the store (agentStore.ts)
  chatMessages,        \* chatMessagesAtom
  chatInput,           \* chatInputAtom
  isAgentTyping,       \* isAgentTypingAtom
  currentConversation, \* currentConversationAtom
  generatedSDL,        \* generatedSDLAtom
  agentTemplate,       \* agentTemplateAtom
  isAgentModalOpen,    \* isAgentModalOpenAtom
  agentConfig,         \* agentConfigAtom
  nanoidNext,          \* the values nanoid() has handed out so far, plus one
  lastOp,              \* the write made last to the store, with its arguments
  \* AkashAgentModal
  isOpen,              \* the isOpen prop
  timer,               \* the setTimeout of the effect: "none" | "pending"
  clearsSinceClose,    \* runs of clearChat since isOpen last became false
  \* ChatInput
  disabled,            \* the disabled prop
  debugMode,           \* the debugMode prop
  isSending,           \* useState isSending
  sendClosure,         \* what the memoized handleSend has closed over
  keyClosure,          \* what the handleSend held by the memoized handleKeyDown has closed over
  sends,               \* the calls of onStreamingMessage: <<[message, outcome, allowed]>>
  \* testConnection (one invocation)
  test                 \* [pc, returned, afterSend]

hookVars   == <<msg, hookPc, connStatus, buffer, actionCount, finalResponse,
                onActionLog, throwsAt, settled, result>>
streamVars == <<wire, received, resStatus, resWrites, endCount>>
relayVars  == <<req, baseUrlSet, relayPc>>
upVars     == <<upKind, upChunks, upFate>>
auxVars    == <<requests, fetches, upRead, decoderPending, elapsed, call2>>
storeVars  == <<chatMessages, chatInput, isAgentTyping, currentConversation,
                generatedSDL, agentTemplate, isAgentModalOpen, agentConfig,
                nanoidNext, lastOp>>
modalVars  == <<isOpen, timer, clearsSinceClose>>
inputVars  == <<disabled, debugMode, isSending, sendClosure, keyClosure, sends>>
uiVars     == <<storeVars, modalVars, inputVars, test>>
netVars    == <<hookVars, streamVars, relayVars, upVars, auxVars>>
vars       == <<hookVars, streamVars, relayVars, upVars, auxVars, uiVars>>

NoReq == [sent |-> FALSE, method |-> "", message |-> ""]

\* The locals and the stream of the second invocation, when there is none.
NoCall == [pc |-> "none", wire |-> <<>>, received |-> <<>>, buffer |-> <<>>,
           actionCount |-> 0, finalResponse |-> "", log |-> <<>>,
           result |-> "", settled |-> 0, status |-> 0]

\* The configuration the store starts with (agentStore.ts 56-60).
DefaultConfig == [agent_id |-> "env", base_url |-> "env", timeout |-> 14400]

\* No write to the store yet.
NoOp == [name |-> "none"]

\* No testConnection invocation.
NoTest == [pc |-> "none", returned |-> "none", afterSend |-> FALSE]

\* What a render of ChatInput gives to the callbacks it creates.
Closure(in, typing, status, dbg, dis) ==
  [input |-> in, isAgentTyping |-> typing, connectionStatus |-> status,
   debugMode |-> dbg, disabled |-> dis]

\* The atoms written by clearChatAtom, with their initial values
\* (agentStore.ts 27-39).
ChatCleared ==
  /\ chatMessages = <<>>
  /\ chatInput = ""
  /\ isAgentTyping = FALSE
  /\ currentConversation = "null"
  /\ generatedSDL = "null"
  /\ agentTemplate = "null"

\* The store with the initial values of its atoms.
NoStore ==
  /\ ChatCleared
  /\ isAgentModalOpen = FALSE
  /\ agentConfig = DefaultConfig
  /\ nanoidNext = 1
  /\ lastOp = NoOp

\* The modal is not mounted.
NoModal ==
  /\ isOpen = FALSE
  /\ timer = "none"
  /\ clearsSinceClose = 0

\* The input is not mounted.
NoInput ==
  /\ disabled = FALSE
  /\ debugMode = FALSE
  /\ isSending = FALSE
  /\ sendClosure = Closure("", FALSE, connStatus, FALSE, FALSE)
  /\ keyClosure = Closure("", FALSE, connStatus, FALSE, FALSE)
  /\ sends = <<>>

\* The store, the modal and the input before anything is done with them.
NoUi == NoStore /\ NoModal /\ NoInput /\ test = NoTest

\* ------------------------------------------ sendStreamingMessage: the loop
\* Variant: actionCount++ placed before the test of data.action.
TryLine_CountsEveryActionLine(st, line, throws) ==
  LET d == JSONParse(line) IN
  IF ~d.ok THEN [st |-> st, thrown |-> "SyntaxError"]
  ELSE IF d.type = "action" THEN
    LET n == st.actionCount + 1 IN
    IF d.has THEN
      [st |-> [st EXCEPT !.actionCount = n,
                         !.log = Append(@, [action |-> [sequence_index |-> d.v],
                                            count  |-> n])],
       thrown |-> IF n \in throws THEN "callback" ELSE "none"]
    ELSE [st |-> [st EXCEPT !.actionCount = n], thrown |-> "none"]
  ELSE IF d.type = "final_response" THEN
    [st |-> IF Truthy(d) THEN [st EXCEPT !.finalResponse = d.v] ELSE st,
     thrown |-> "none"]
  ELSE IF d.type = "error" THEN
    [st |-> st, thrown |-> IF Truthy(d) THEN d.v ELSE "Agent error"]
  ELSE [st |-> st, thrown |-> "none"]

\* Variant: an action whose sequence_index equals that of the action
\* delivered last is taken for a repeat and not delivered.
TryLine_MergesSameIndex(st, line, throws) ==
  LET d == JSONParse(line) IN
  IF ~d.ok THEN [st |-> st, thrown |-> "SyntaxError"]
  ELSE IF d.type = "action" THEN
    IF d.has /\ ~(st.log # <<>> /\ Last(st.log).action.sequence_index = d.v) THEN
      LET n == st.actionCount + 1 IN
      [st |-> [st EXCEPT !.actionCount = n,
                         !.log = Append(@, [action |-> [sequence_index |-> d.v],
                                            count  |-> n])],
       thrown |-> IF n \in throws THEN "callback" ELSE "none"]
    ELSE [st |-> st, thrown |-> "none"]
  ELSE IF d.type = "final_response" THEN
    [st |-> IF Truthy(d) THEN [st EXCEPT !.finalResponse = d.v] ELSE st,
     thrown |-> "none"]
  ELSE IF d.type = "error" THEN
    [st |-> st, thrown |-> IF Truthy(d) THEN d.v ELSE "Agent error"]
  ELSE [st |-> st, thrown |-> "none"]

\* Variant: the count is passed as actionCount + 1 and incremented after
\* the callback has returned.
TryLine_CountsAfterCall(st, line, throws) ==
  LET d == JSONParse(line) IN
  IF ~d.ok THEN [st |-> st, thrown |-> "SyntaxError"]
  ELSE IF d.type = "action" THEN
    IF d.has THEN
      LET n == st.actionCount + 1 IN
      [st |-> [st EXCEPT !.actionCount = IF n \in throws THEN @ ELSE n,
                         !.log = Append(@, [action |-> [sequence_index |-> d.v],
                                            count  |-> n])],
       thrown |-> IF n \in throws THEN "callback" ELSE "none"]
    ELSE [st |-> st, thrown |-> "none"]
  ELSE IF d.type = "final_response" THEN
    [st |-> IF Truthy(d) THEN [st EXCEPT !.finalResponse = d.v] ELSE st,
     thrown |-> "none"]
  ELSE IF d.type = "error" THEN
    [st |-> st, thrown |-> IF Truthy(d) THEN d.v ELSE "Agent error"]
  ELSE [st |-> st, thrown |-> "none"]

\* The body of the try block of one line (useAkashAgent.ts 121-142): the
\* locals after it, and what it threw ("none" when it completed).
TryLine(st, line, throws) ==
  LET d == JSONParse(line) IN
  IF ~d.ok THEN [st |-> st, thrown |-> "SyntaxError"]
  ELSE IF d.type = "action" THEN
    IF d.has THEN
      LET n == st.actionCount + 1 IN
      [st |-> [st EXCEPT !.actionCount = n,
                         !.log = Append(@, [action |-> [sequence_index |-> d.v],
                                            count  |-> n])],
       thrown |-> IF n \in throws THEN "callback" ELSE "none"]
    ELSE [st |-> st, thrown |-> "none"]
  ELSE IF d.type = "final_response" THEN
    [st |-> IF Truthy(d) THEN [st EXCEPT !.finalResponse = d.v] ELSE st,
     thrown |-> "none"]
  ELSE IF d.type = "error" THEN
    [st |-> st, thrown |-> IF Truthy(d) THEN d.v ELSE "Agent error"]
  ELSE [st |-> st, thrown |-> "none"]

\* try { ... } catch (parseError) { console.warn(...) }: whatever the body
\* threw is logged and the loop goes on with the next line.
ClassifyLine(st, line, throws) == TryLine(st, line, throws).st

\* Variant: the try/catch wraps the whole for loop, so a line that fails to
\* parse ends the processing of the lines of its chunk.
RECURSIVE ProcessLines_TryAroundLoop(_, _, _)
ProcessLines_TryAroundLoop(st, lines, throws) ==
  IF lines = <<>> THEN st
  ELSE LET trimmedLine == Trim(Head(lines)) IN
       IF trimmedLine = <<>> THEN ProcessLines_TryAroundLoop(st, Tail(lines), throws)
       ELSE LET r == TryLine(st, trimmedLine, throws) IN
            IF r.thrown = "SyntaxError" THEN r.st
            ELSE ProcessLines_TryAroundLoop(r.st, Tail(lines), throws)

\* for (const line of lines) { trim; skip blank; classify }
RECURSIVE ProcessLines(_, _, _)
ProcessLines(st, lines, throws) ==
  IF lines = <<>> THEN st
  ELSE LET trimmedLine == Trim(Head(lines))
           st1 == IF trimmedLine = <<>> THEN st
                  ELSE ClassifyLine(st, trimmedLine, throws)
       IN ProcessLines(st1, Tail(lines), throws)

\* Variant: the incomplete last line is not carried over to the next chunk.
KeepLast_Dropped(lines) == <<>>

\* buffer = lines.pop() || ''
KeepLast(lines) == Last(lines)

\* One iteration of while (true) for a chunk that is not the end of stream.
ProcessChunk(st, buf, chunk, throws) ==
  LET lines == Split(buf \o chunk) IN
  [st |-> ProcessLines(st, Front(lines), throws), buffer |-> KeepLast(lines)]

\* "Process any remaining buffer content" (useAkashAgent.ts 149-159).
ProcessRemaining(st, buf) ==
  LET t == Trim(buf)
      d == JSONParse(t) IN
  IF t # <<>> /\ d.ok /\ d.type = "final_response" /\ Truthy(d)
  THEN [st EXCEPT !.finalResponse = d.v]
  ELSE st

Locals == [actionCount |-> actionCount, finalResponse |-> finalResponse,
           log |-> onActionLog]

\* --------------------------------------------- sendStreamingMessage: steps
\* Variant: a stream that brought no final response is an error.
Resolve_RequiresFinal(value) ==
  /\ hookPc' = (IF value = "" THEN "rejected" ELSE "resolved")
  /\ result' = (IF value = "" THEN "No final response" ELSE value)
  /\ settled' = settled + 1

\* The promise settles: the async function returns or throws.
Resolve(value) ==
  /\ hookPc' = "resolved"
  /\ result' = value
  /\ settled' = settled + 1

\* Variant: the error is recorded but not rethrown out of the read loop.
RejectInTry_KeepsReading(message) ==
  /\ connStatus' = "error"
  /\ hookPc' = hookPc
  /\ result' = message
  /\ settled' = settled + 1

\* catch (error) { setConnectionStatus('error'); toast(...); throw error }
RejectInTry(message) ==
  /\ connStatus' = "error"
  /\ hookPc' = "rejected"
  /\ result' = message
  /\ settled' = settled + 1

\* Entry up to the first await: the blank check, 'connecting', the fetch.
HookStart ==
  /\ hookPc = "start"
  /\ IF msg = "blank"
     THEN /\ hookPc' = "rejected"
          /\ result' = "Message cannot be empty"
          /\ settled' = settled + 1
          /\ UNCHANGED <<connStatus, req, requests>>
     ELSE /\ connStatus' = "connecting"
          /\ req' = [sent |-> TRUE, method |-> "POST", message |-> "text"]
          /\ requests' = requests + 1
          /\ hookPc' = "fetching"
          /\ UNCHANGED <<result, settled>>
  /\ UNCHANGED <<msg, buffer, actionCount, finalResponse, onActionLog, throwsAt>>
  /\ UNCHANGED <<streamVars, baseUrlSet, relayPc, upVars>>
  /\ UNCHANGED <<fetches, upRead, decoderPending, elapsed, call2>>
  /\ UNCHANGED uiVars

\* The fetch resolves once the response head is there: response.ok, then
\* 'connected' and the reader.
HookFetchSettle ==
  /\ hookPc = "fetching"
  /\ resStatus # 0
  /\ IF resStatus # 200
     THEN RejectInTry("HTTP error")
     ELSE /\ connStatus' = "connected"
          /\ hookPc' = "reading"
          /\ UNCHANGED <<result, settled>>
  /\ UNCHANGED <<msg, buffer, actionCount, finalResponse, onActionLog, throwsAt>>
  /\ UNCHANGED <<streamVars, relayVars, upVars, auxVars>>
  /\ UNCHANGED uiVars

\* The fetch rejects (the browser cannot reach the console's API route).
HookFetchReject ==
  /\ hookPc = "fetching"
  /\ resStatus = 0
  /\ RejectInTry("Failed to fetch")
  /\ UNCHANGED <<msg, buffer, actionCount, finalResponse, onActionLog, throwsAt>>
  /\ UNCHANGED <<streamVars, relayVars, upVars, auxVars>>
  /\ UNCHANGED uiVars

\* Variant: the read loop returns as soon as a final response is there.
HookRead_ReturnsOnFinal(k) ==
  /\ hookPc = "reading"
  /\ k <= Len(wire)
  /\ LET chunk == SubSeq(wire, 1, k)
         r == ProcessChunk(Locals, buffer, chunk, throwsAt) IN
     /\ buffer' = r.buffer
     /\ actionCount' = r.st.actionCount
     /\ finalResponse' = r.st.finalResponse
     /\ onActionLog' = r.st.log
     /\ wire' = SubSeq(wire, k + 1, Len(wire))
     /\ received' = received \o chunk
     /\ IF r.st.finalResponse # ""
        THEN Resolve(r.st.finalResponse)
        ELSE UNCHANGED <<hookPc, settled, result>>
  /\ UNCHANGED <<msg, connStatus, throwsAt>>
  /\ UNCHANGED <<resStatus, resWrites, endCount, relayVars, upVars, auxVars>>
  /\ UNCHANGED uiVars

\* reader.read() yields a chunk of k tokens (k = 0: a zero-length chunk).
HookRead(k) ==
  /\ hookPc = "reading"
  /\ k <= Len(wire)
  /\ LET chunk == SubSeq(wire, 1, k)
         r == ProcessChunk(Locals, buffer, chunk, throwsAt) IN
     /\ buffer' = r.buffer
     /\ actionCount' = r.st.actionCount
     /\ finalResponse' = r.st.finalResponse
     /\ onActionLog' = r.st.log
     /\ wire' = SubSeq(wire, k + 1, Len(wire))
     /\ received' = received \o chunk
  /\ UNCHANGED <<msg, hookPc, connStatus, throwsAt, settled, result>>
  /\ UNCHANGED <<resStatus, resWrites, endCount, relayVars, upVars, auxVars>>
  /\ UNCHANGED uiVars

\* reader.read() yields done: the remaining buffer, then return.
HookReadDone ==
  /\ hookPc = "reading"
  /\ wire = <<>>
  /\ endCount > 0
  /\ LET st == ProcessRemaining(Locals, buffer) IN
     /\ finalResponse' = st.finalResponse
     /\ Resolve(st.finalResponse)
  /\ UNCHANGED <<msg, connStatus, buffer, actionCount, onActionLog, throwsAt>>
  /\ UNCHANGED <<streamVars, relayVars, upVars, auxVars>>
  /\ UNCHANGED uiVars

\* reader.read() rejects (the connection to the API route breaks).
HookReadReject ==
  /\ hookPc = "reading"
  /\ RejectInTry("network error")
  /\ UNCHANGED <<msg, buffer, actionCount, finalResponse, onActionLog, throwsAt>>
  /\ UNCHANGED <<streamVars, relayVars, upVars, auxVars>>
  /\ UNCHANGED uiVars

\* ------------------------- a second, concurrent call of sendStreamingMessage
\* Its locals are its own (call2); the connection status atom is the one
\* every call writes.
Locals2 == [actionCount |-> call2.actionCount, finalResponse |-> call2.finalResponse,
            log |-> call2.log]

\* catch (error) { setConnectionStatus('error'); toast(...); throw error }
Reject2(message) ==
  /\ connStatus' = "error"
  /\ call2' = [call2 EXCEPT !.pc = "rejected", !.result = message,
                            !.settled = call2.settled + 1]

\* Entry up to the first await: 'connecting', the fetch.
Hook2Start ==
  /\ call2.pc = "start"
  /\ connStatus' = "connecting"
  /\ requests' = requests + 1
  /\ call2' = [call2 EXCEPT !.pc = "fetching"]
  /\ UNCHANGED <<msg, hookPc, buffer, actionCount, finalResponse, onActionLog,
                 throwsAt, settled, result>>
  /\ UNCHANGED <<streamVars, relayVars, upVars>>
  /\ UNCHANGED <<fetches, upRead, decoderPending, elapsed>>
  /\ UNCHANGED uiVars

\* The fetch resolves: response.ok, then 'connected' and the reader.
Hook2FetchSettle ==
  /\ call2.pc = "fetching"
  /\ IF call2.status # 200
     THEN Reject2("HTTP error")
     ELSE /\ connStatus' = "connected"
          /\ call2' = [call2 EXCEPT !.pc = "reading"]
  /\ UNCHANGED <<msg, hookPc, buffer, actionCount, finalResponse, onActionLog,
                 throwsAt, settled, result>>
  /\ UNCHANGED <<streamVars, relayVars, upVars>>
  /\ UNCHANGED <<requests, fetches, upRead, decoderPending, elapsed>>
  /\ UNCHANGED uiVars

\* Variant: the framing buffer is one variable shared by the calls.
Hook2Read_SharedBuffer(k) ==
  /\ call2.pc = "reading"
  /\ k <= Len(call2.wire)
  /\ LET chunk == SubSeq(call2.wire, 1, k)
         r == ProcessChunk(Locals2, buffer, chunk, {}) IN
     /\ buffer' = r.buffer
     /\ call2' = [call2 EXCEPT !.actionCount = r.st.actionCount,
                               !.finalResponse = r.st.finalResponse,
                               !.log = r.st.log,
                               !.wire = SubSeq(call2.wire, k + 1, Len(call2.wire)),
                               !.received = call2.received \o chunk]
  /\ UNCHANGED <<msg, hookPc, connStatus, actionCount, finalResponse, onActionLog,
                 throwsAt, settled, result>>
  /\ UNCHANGED <<streamVars, relayVars, upVars>>
  /\ UNCHANGED <<requests, fetches, upRead, decoderPending, elapsed>>
  /\ UNCHANGED uiVars

\* reader.read() yields a chunk of k tokens.
Hook2Read(k) ==
  /\ call2.pc = "reading"
  /\ k <= Len(call2.wire)
  /\ LET chunk == SubSeq(call2.wire, 1, k)
         r == ProcessChunk(Locals2, call2.buffer, chunk, {}) IN
     call2' = [call2 EXCEPT !.buffer = r.buffer,
                            !.actionCount = r.st.actionCount,
                            !.finalResponse = r.st.finalResponse,
                            !.log = r.st.log,
                            !.wire = SubSeq(call2.wire, k + 1, Len(call2.wire)),
                            !.received = call2.received \o chunk]
  /\ UNCHANGED <<hookVars, streamVars, relayVars, upVars>>
  /\ UNCHANGED <<requests, fetches, upRead, decoderPending, elapsed>>
  /\ UNCHANGED uiVars

\* reader.read() yields done: the remaining buffer, then return.
Hook2ReadDone ==
  /\ call2.pc = "reading"
  /\ call2.wire = <<>>
  /\ LET st == ProcessRemaining(Locals2, call2.buffer) IN
     call2' = [call2 EXCEPT !.finalResponse = st.finalResponse,
                            !.pc = "resolved",
                            !.result = st.finalResponse,
                            !.settled = call2.settled + 1]
  /\ UNCHANGED <<hookVars, streamVars, relayVars, upVars>>
  /\ UNCHANGED <<requests, fetches, upRead, decoderPending, elapsed>>
  /\ UNCHANGED uiVars

\* reader.read() rejects (the connection to the API route breaks).
Hook2ReadReject ==
  /\ call2.pc = "reading"
  /\ Reject2("network error")
  /\ UNCHANGED <<msg, hookPc, buffer, actionCount, finalResponse, onActionLog,
                 throwsAt, settled, result>>
  /\ UNCHANGED <<streamVars, relayVars, upVars>>
  /\ UNCHANGED <<requests, fetches, upRead, decoderPending, elapsed>>
  /\ UNCHANGED uiVars

\* ---------------------------------------------------------- testConnection
\* What a step of testConnection leaves alone.
TestFrame ==
  /\ UNCHANGED <<msg, hookPc, buffer, actionCount, finalResponse, onActionLog,
                 throwsAt, settled, result>>
  /\ UNCHANGED <<streamVars, relayVars, upVars, auxVars>>
  /\ UNCHANGED <<storeVars, modalVars, inputVars>>

\* testConnection is called while no sendStreamingMessage call is under
\* way: 'connecting', then the fetch of the health route.
TestStart ==
  /\ test.pc = "start"
  /\ hookPc \notin {"fetching", "reading"}
  /\ connStatus' = "connecting"
  /\ test' = [test EXCEPT !.pc = "fetching",
                          !.afterSend = (hookPc \in {"resolved", "rejected"})]
  /\ TestFrame

\* Variant: a response that is not ok returns false and leaves the status.
TestFetchSettle_NotOkSilent(kind) ==
  /\ test.pc = "fetching"
  /\ IF kind = "ok"
     THEN /\ test' = [test EXCEPT !.pc = "json"]
          /\ UNCHANGED connStatus
     ELSE /\ connStatus' = (IF kind = "reject" THEN "error" ELSE connStatus)
          /\ test' = [test EXCEPT !.pc = "done", !.returned = "false"]
  /\ TestFrame

\* await fetch(...) settles: it rejects, or the response is not ok, or ok.
TestFetchSettle(kind) ==
  /\ test.pc = "fetching"
  /\ IF kind = "ok"
     THEN /\ test' = [test EXCEPT !.pc = "json"]
          /\ UNCHANGED connStatus
     ELSE /\ connStatus' = "error"
          /\ test' = [test EXCEPT !.pc = "done", !.returned = "false"]
  /\ TestFrame

\* await response.json() settles: it rejects, or data.status is
\* 'connected', or something else.
TestJsonSettle(kind) ==
  /\ test.pc = "json"
  /\ IF kind = "connected"
     THEN /\ connStatus' = "connected"
          /\ test' = [test EXCEPT !.pc = "done", !.returned = "true"]
     ELSE /\ connStatus' = "error"
          /\ test' = [test EXCEPT !.pc = "done", !.returned = "false"]
  /\ TestFrame

\* sendStreamingMessage is called while no testConnection is under way.
SendStart ==
  /\ test.pc \notin {"fetching", "json"}
  /\ HookStart

\* ------------------------------------------------------- the relay handler
\* The bytes of a two-byte character, its decoded form, and U+FFFD.
LEAD == Tok("lead", FALSE, "")
CONT == Tok("cont", FALSE, "")
CH   == Tok("char", FALSE, "")
REPL == Tok("repl", FALSE, "")

\* decoder.decode(value, { stream: true }): the text of the bytes, given
\* whether a lead byte is held back, and whether one is held back after.
RECURSIVE Decode(_, _)
Decode(pend, bytes) ==
  IF bytes = <<>> THEN [text |-> <<>>, pending |-> pend]
  ELSE
    LET b == Head(bytes)
        Emit(c, r) == [text |-> <<c>> \o r.text, pending |-> r.pending] IN
    IF pend THEN
      IF b = CONT THEN Emit(CH, Decode(FALSE, Tail(bytes)))
      ELSE Emit(REPL, Decode(FALSE, bytes))
    ELSE IF b = LEAD THEN Decode(TRUE, Tail(bytes))
    ELSE IF b = CONT THEN Emit(REPL, Decode(FALSE, Tail(bytes)))
    ELSE Emit(b, Decode(FALSE, Tail(bytes)))

\* The UTF-8 bytes of a string written to the response.
RECURSIVE Encode(_)
Encode(text) ==
  IF text = <<>> THEN <<>>
  ELSE (IF Head(text) = CH THEN <<LEAD, CONT>> ELSE <<Head(text)>>) \o Encode(Tail(text))

\* res.write(chunk)
ResWrite(kind, text) ==
  /\ resWrites' = Append(resWrites, [kind |-> kind, text |-> Encode(text)])
  /\ wire' = wire \o Encode(text)

\* JSON.stringify(errorData) + '\n'
ErrorRecord(message) == Rec("error", TRUE, message) \o <<NL>>

\* catch (error) { ...; res.write(JSON.stringify(errorData) + '\n') }
\* finally { res.end() }
CatchAndEnd(message) ==
  /\ ResWrite("error", ErrorRecord(message))
  /\ endCount' = endCount + 1
  /\ relayPc' = "done"

\* !message || typeof message !== 'string' || !message.trim()
InvalidMessage(m) == m \in {"missing", "empty"} \/ m = "number" \/ m = "blank"

\* Variant: the test of baseUrl is missing.
RelayStart_NoBaseUrlCheck ==
  /\ relayPc = "idle"
  /\ req.sent
  /\ IF req.method # "POST" \/ InvalidMessage(req.message)
     THEN /\ resStatus' = IF req.method # "POST" THEN 405 ELSE 400
          /\ resWrites' = Append(resWrites, [kind |-> "json", text |-> <<>>])
          /\ endCount' = endCount + 1
          /\ relayPc' = "done"
          /\ UNCHANGED fetches
     ELSE /\ resStatus' = 200
          /\ fetches' = fetches + 1
          /\ relayPc' = "fetch"
          /\ UNCHANGED <<resWrites, endCount>>
  /\ UNCHANGED <<hookVars, wire, received, req, baseUrlSet, upVars>>
  /\ UNCHANGED <<requests, upRead, decoderPending, elapsed, call2>>
  /\ UNCHANGED uiVars

\* Entry up to the first await: the three validations, the head, the fetch.
RelayStart ==
  /\ relayPc = "idle"
  /\ req.sent
  /\ IF req.method # "POST" \/ InvalidMessage(req.message) \/ ~baseUrlSet
     THEN /\ resStatus' = IF req.method # "POST" THEN 405
                          ELSE IF InvalidMessage(req.message) THEN 400 ELSE 500
          /\ resWrites' = Append(resWrites, [kind |-> "json", text |-> <<>>])
          /\ endCount' = endCount + 1
          /\ relayPc' = "done"
          /\ UNCHANGED fetches
     ELSE /\ resStatus' = 200
          /\ fetches' = fetches + 1
          /\ relayPc' = "fetch"
          /\ UNCHANGED <<resWrites, endCount>>
  /\ UNCHANGED <<hookVars, wire, received, req, baseUrlSet, upVars>>
  /\ UNCHANGED <<requests, upRead, decoderPending, elapsed, call2>>
  /\ UNCHANGED uiVars

\* Variant: a rejected fetch is tried once more.
RelayFetchSettle_Retries ==
  /\ relayPc = "fetch"
  /\ upKind # "hang"
  /\ IF upKind = "reject" /\ fetches < 2
     THEN /\ fetches' = fetches + 1
          /\ UNCHANGED <<wire, resWrites, endCount, relayPc>>
     ELSE /\ UNCHANGED fetches
          /\ IF upKind = "reject" THEN CatchAndEnd("fetch failed")
             ELSE IF upKind = "non2xx" THEN CatchAndEnd("Agent proxy error")
             ELSE IF upKind = "nobody" THEN CatchAndEnd("No response stream available from agent")
             ELSE /\ relayPc' = "read"
                  /\ UNCHANGED <<wire, resWrites, endCount>>
  /\ UNCHANGED <<hookVars, received, resStatus, req, baseUrlSet, upVars>>
  /\ UNCHANGED <<requests, upRead, decoderPending, elapsed, call2>>
  /\ UNCHANGED uiVars

\* Variant: an upstream answer that is not ok becomes the status of the
\* response.
RelayFetchSettle_StatusOnFailure ==
  /\ relayPc = "fetch"
  /\ upKind # "hang"
  /\ IF upKind = "reject" THEN CatchAndEnd("fetch failed") /\ UNCHANGED resStatus
     ELSE IF upKind = "non2xx" THEN CatchAndEnd("Agent proxy error") /\ resStatus' = 502
     ELSE IF upKind = "nobody"
       THEN CatchAndEnd("No response stream available from agent") /\ UNCHANGED resStatus
     ELSE /\ relayPc' = "read"
          /\ UNCHANGED <<wire, resWrites, endCount, resStatus>>
  /\ UNCHANGED <<hookVars, received, req, baseUrlSet, upVars, auxVars>>
  /\ UNCHANGED uiVars

\* await fetch(...) settles: rejected, not ok, no body, or a reader.
RelayFetchSettle ==
  /\ relayPc = "fetch"
  /\ upKind # "hang"
  /\ IF upKind = "reject" THEN CatchAndEnd("fetch failed")
     ELSE IF upKind = "non2xx" THEN CatchAndEnd("Agent proxy error")
     ELSE IF upKind = "nobody" THEN CatchAndEnd("No response stream available from agent")
     ELSE /\ relayPc' = "read"
          /\ UNCHANGED <<wire, resWrites, endCount>>
  /\ UNCHANGED <<hookVars, received, resStatus, req, baseUrlSet, upVars, auxVars>>
  /\ UNCHANGED uiVars

\* await reader.read() yields a chunk: it is forwarded.
RelayRead ==
  /\ relayPc = "read"
  /\ upChunks # <<>>
  /\ LET d == Decode(decoderPending, Head(upChunks)) IN
     /\ ResWrite("chunk", d.text)
     /\ decoderPending' = d.pending
  /\ upRead' = Append(upRead, Head(upChunks))
  /\ upChunks' = Tail(upChunks)
  /\ UNCHANGED <<hookVars, received, resStatus, endCount, relayVars, upKind, upFate>>
  /\ UNCHANGED <<requests, fetches, elapsed, call2>>
  /\ UNCHANGED uiVars

\* await reader.read() yields done: releaseLock, res.end().
RelayReadDone ==
  /\ relayPc = "read"
  /\ upChunks = <<>>
  /\ upFate = "close"
  /\ endCount' = endCount + 1
  /\ relayPc' = "done"
  /\ UNCHANGED <<hookVars, wire, received, resStatus, resWrites, req, baseUrlSet, upVars>>
  /\ UNCHANGED auxVars
  /\ UNCHANGED uiVars

\* Variant: a read failure leaves through the finally blocks only, without
\* the catch that writes the error record.
RelayReadReject_NoRecord ==
  /\ relayPc = "read"
  /\ upChunks = <<>>
  /\ upFate = "fail"
  /\ endCount' = endCount + 1
  /\ relayPc' = "done"
  /\ UNCHANGED <<hookVars, wire, received, resStatus, resWrites, req, baseUrlSet, upVars>>
  /\ UNCHANGED auxVars
  /\ UNCHANGED uiVars

\* await reader.read() rejects: releaseLock, then the outer catch.
RelayReadReject ==
  /\ relayPc = "read"
  /\ upChunks = <<>>
  /\ upFate = "fail"
  /\ CatchAndEnd("read failed")
  /\ UNCHANGED <<hookVars, received, resStatus, req, baseUrlSet, upVars, auxVars>>
  /\ UNCHANGED uiVars

\* The timeout ceiling of the request passes while the relay waits on the
\* upstream.  The handler sets no timer and passes no AbortSignal to fetch
\* (timeout only travels in the body of the upstream request), so nothing
\* of the handler is scheduled by it.
TimeoutElapses ==
  /\ relayPc \in {"fetch", "read"}
  /\ ~elapsed
  /\ elapsed' = TRUE
  /\ UNCHANGED <<hookVars, streamVars, relayVars, upVars>>
  /\ UNCHANGED <<requests, fetches, upRead, decoderPending, call2>>
  /\ UNCHANGED uiVars

\* --------------------------------------------------------------- the store
MaxMessages == 3     \* messages added to the chat

\* The texts of an input or of a message: empty, blanks only, a text, the
\* same text with blanks around it, a text of more than 2000 characters.
InputTexts == {"", "blank", "hi", "padded", "long"}

\* String.prototype.trim on these texts.
TrimText(t) == IF t = "blank" THEN "" ELSE IF t = "padded" THEN "hi" ELSE t

\* { ...msg, ...updates }
Merge(m, updates) ==
  [f \in DOMAIN m |-> IF f \in DOMAIN updates THEN updates[f] ELSE m[f]]

\* A ChatMessage; sequenceIndex is <<>> when the field is absent and <<k>>
\* when it is the number k.
Message(id, type, content, status, seq) ==
  [id |-> id, type |-> type, content |-> content, status |-> status,
   sequenceIndex |-> seq]

\* A value of nanoid(): the n-th one handed out.
Nanoid(n) == <<"nanoid", n>>

\* Variant: the new message is put in front of the others.
AddMessage_Prepends(message) ==
  /\ chatMessages' = <<message>> \o chatMessages
  /\ lastOp' = [name |-> "add", message |-> message]

\* addMessageAtom
AddMessage(message) ==
  /\ chatMessages' = Append(chatMessages, message)
  /\ lastOp' = [name |-> "add", message |-> message]

\* updateMessageAtom
UpdateMessage(messageId, updates) ==
  /\ chatMessages' = [i \in 1..Len(chatMessages) |->
                        IF chatMessages[i].id = messageId
                        THEN Merge(chatMessages[i], updates)
                        ELSE chatMessages[i]]
  /\ lastOp' = [name |-> "update", id |-> messageId, updates |-> updates]

\* useChatState.addUserMessage
AddUserMessage(content) ==
  /\ Len(chatMessages) < MaxMessages
  /\ nanoidNext <= MaxMessages
  /\ AddMessage(Message(Nanoid(nanoidNext), "user", TrimText(content), "sent", <<>>))
  /\ nanoidNext' = nanoidNext + 1
  /\ UNCHANGED <<chatInput, isAgentTyping, currentConversation, generatedSDL,
                 agentTemplate, isAgentModalOpen, agentConfig>>
  /\ UNCHANGED <<netVars, modalVars, inputVars, test>>

\* useChatState.addAgentMessage; options.sequenceIndex is <<>> and
\* options.status is "none" when not given.
AddAgentMessage(content, options) ==
  /\ Len(chatMessages) < MaxMessages
  /\ nanoidNext <= MaxMessages
  /\ LET given == options.sequenceIndex \notin {<<>>, <<0>>}
         id == IF given THEN <<"action", options.sequenceIndex[1]>> ELSE Nanoid(nanoidNext)
         status == IF options.status = "none" THEN "completed" ELSE options.status IN
     /\ AddMessage(Message(id, "agent", TrimText(content), status, options.sequenceIndex))
     /\ nanoidNext' = IF given THEN nanoidNext ELSE nanoidNext + 1
  /\ UNCHANGED <<chatInput, isAgentTyping, currentConversation, generatedSDL,
                 agentTemplate, isAgentModalOpen, agentConfig>>
  /\ UNCHANGED <<netVars, modalVars, inputVars, test>>

\* useChatState.addErrorMessage
AddErrorMessage(error) ==
  /\ Len(chatMessages) < MaxMessages
  /\ nanoidNext <= MaxMessages
  /\ AddMessage(Message(Nanoid(nanoidNext), "agent",
                        IF error = "" THEN "I encountered an error" ELSE error,
                        "error", <<>>))
  /\ nanoidNext' = nanoidNext + 1
  /\ UNCHANGED <<chatInput, isAgentTyping, currentConversation, generatedSDL,
                 agentTemplate, isAgentModalOpen, agentConfig>>
  /\ UNCHANGED <<netVars, modalVars, inputVars, test>>

\* useChatState.updateExistingMessage
UpdateExistingMessage(messageId, updates) ==
  /\ UpdateMessage(messageId, updates)
  /\ UNCHANGED <<chatInput, isAgentTyping, currentConversation, generatedSDL,
                 agentTemplate, isAgentModalOpen, agentConfig, nanoidNext>>
  /\ UNCHANGED <<netVars, modalVars, inputVars, test>>

\* The setter of chatInputAtom.
SetInputTo(value) ==
  /\ chatInput' = value
  /\ lastOp' = [name |-> "setInput"]

\* setInput(value) from outside ChatInput (useChatState)
SetInput(value) ==
  /\ SetInputTo(value)
  /\ UNCHANGED <<chatMessages, isAgentTyping, currentConversation, generatedSDL,
                 agentTemplate, isAgentModalOpen, agentConfig, nanoidNext>>
  /\ UNCHANGED <<netVars, modalVars, inputVars, test>>

\* setAgentTypingAtom
SetAgentTyping(isTyping) ==
  /\ isAgentTyping' = isTyping
  /\ lastOp' = [name |-> "setAgentTyping"]
  /\ UNCHANGED <<chatMessages, chatInput, currentConversation, generatedSDL,
                 agentTemplate, isAgentModalOpen, agentConfig, nanoidNext>>
  /\ UNCHANGED <<netVars, modalVars, inputVars, test>>

\* setGeneratedSDLAtom; template is "null" when not given.
SetGeneratedSDL(sdl, template) ==
  /\ generatedSDL' = sdl
  /\ agentTemplate' = IF template # "null" THEN template ELSE agentTemplate
  /\ lastOp' = [name |-> "setGeneratedSDL"]
  /\ UNCHANGED <<chatMessages, chatInput, isAgentTyping, currentConversation,
                 isAgentModalOpen, agentConfig, nanoidNext>>
  /\ UNCHANGED <<netVars, modalVars, inputVars, test>>

\* setConnectionStatusAtom
SetConnectionStatus(status) ==
  /\ connStatus' = status
  /\ lastOp' = [name |-> "setConnectionStatus"]
  /\ UNCHANGED <<msg, hookPc, buffer, actionCount, finalResponse, onActionLog,
                 throwsAt, settled, result>>
  /\ UNCHANGED <<streamVars, relayVars, upVars, auxVars>>
  /\ UNCHANGED <<chatMessages, chatInput, isAgentTyping, currentConversation,
                 generatedSDL, agentTemplate, isAgentModalOpen, agentConfig, nanoidNext>>
  /\ UNCHANGED <<modalVars, inputVars, test>>

\* Variant: the connection status is reset with the chat.
ClearChat_ResetsStatus ==
  /\ chatMessages' = <<>>
  /\ chatInput' = ""
  /\ isAgentTyping' = FALSE
  /\ generatedSDL' = "null"
  /\ agentTemplate' = "null"
  /\ currentConversation' = "null"
  /\ lastOp' = [name |-> "clear"]
  /\ connStatus' = "disconnected"
  /\ UNCHANGED <<isAgentModalOpen, agentConfig, nanoidNext>>

\* clearChatAtom
ClearChat ==
  /\ chatMessages' = <<>>
  /\ chatInput' = ""
  /\ isAgentTyping' = FALSE
  /\ generatedSDL' = "null"
  /\ agentTemplate' = "null"
  /\ currentConversation' = "null"
  /\ lastOp' = [name |-> "clear"]
  /\ UNCHANGED <<connStatus, isAgentModalOpen, agentConfig, nanoidNext>>

\* What a step with ClearChat leaves alone besides the store.
ClearFrame ==
  /\ UNCHANGED <<msg, hookPc, buffer, actionCount, finalResponse, onActionLog,
                 throwsAt, settled, result>>
  /\ UNCHANGED <<streamVars, relayVars, upVars, auxVars, inputVars, test>>

\* useChatState.clearConversation
ClearConversation ==
  /\ ClearChat
  /\ ClearFrame
  /\ UNCHANGED modalVars

\* --------------------------------------------------------- AkashAgentModal
\* isOpen becomes false: the effect runs again and sets its timer.
ModalClose ==
  /\ isOpen
  /\ isOpen' = FALSE
  /\ timer' = "pending"
  /\ clearsSinceClose' = 0
  /\ UNCHANGED <<netVars, storeVars, inputVars, test>>

\* Variant: the effect returns no cleanup.
ModalOpen_KeepsTimer ==
  /\ ~isOpen
  /\ isOpen' = TRUE
  /\ UNCHANGED <<timer, clearsSinceClose>>
  /\ UNCHANGED <<netVars, storeVars, inputVars, test>>

\* isOpen becomes true: the cleanup of the last effect clears the timer.
ModalOpen ==
  /\ ~isOpen
  /\ isOpen' = TRUE
  /\ timer' = "none"
  /\ UNCHANGED clearsSinceClose
  /\ UNCHANGED <<netVars, storeVars, inputVars, test>>

\* The 300 ms have passed: the callback of setTimeout runs clearChat.
TimerFires ==
  /\ timer = "pending"
  /\ ClearChat
  /\ ClearFrame
  /\ timer' = "none"
  /\ clearsSinceClose' = clearsSinceClose + 1
  /\ UNCHANGED isOpen

\* --------------------------------------------------------------- ChatInput
MaxSends == 1        \* calls of onStreamingMessage

\* canSendMessageAtom, on the values a render has seen.
CanSend(c) ==
  TrimText(c.input) # "" /\ ~c.isAgentTyping /\ c.connectionStatus = "connected"

\* messageToSend.length > MAX_CHARS, and charCount > MAX_CHARS
OverLimit(t) == t = "long"

\* The values of the render there is now.
Current == Closure(chatInput, isAgentTyping, connStatus, debugMode, disabled)

\* isInputDisabled: the textarea takes no key.
IsInputDisabled ==
  disabled \/ isAgentTyping \/ (~debugMode /\ connStatus # "connected")

\* canSendMessage: the send button is enabled (and shown).
CanSendMessage ==
  /\ ~isAgentTyping
  /\ IF debugMode
     THEN TrimText(chatInput) # "" /\ ~disabled /\ ~OverLimit(chatInput)
     ELSE CanSend(Current) /\ TrimText(chatInput) # "" /\ ~IsInputDisabled
          /\ ~OverLimit(chatInput)

\* The guards of handleSend, on the values it has closed over.
PassesGuards(c) ==
  LET canSendInDebug == c.debugMode /\ TrimText(c.input) # "" /\ ~c.isAgentTyping
                        /\ ~c.disabled
      canSendNormal  == ~c.debugMode /\ CanSend(c) /\ TrimText(c.input) # ""
                        /\ ~c.disabled /\ ~c.isAgentTyping
                        /\ c.connectionStatus = "connected" IN
  (canSendInDebug \/ canSendNormal) /\ ~OverLimit(TrimText(c.input))

\* What the claim asks of the state in which onStreamingMessage is called.
Allowed ==
  /\ ~isAgentTyping /\ ~disabled
  /\ TrimText(chatInput) # "" /\ ~OverLimit(TrimText(chatInput))
  /\ ~debugMode => (connStatus = "connected" /\ CanSend(Current))

\* The render that follows a step: useCallback keeps handleSend unless one
\* of canSend, input, disabled, isAgentTyping, connectionStatus has changed
\* (debugMode is not among its dependencies; onStreamingMessage and setInput
\* are taken to be stable), and keeps handleKeyDown, with the handleSend it
\* holds, unless disabled or isAgentTyping has changed.
Rerender ==
  LET now == Closure(chatInput', isAgentTyping', connStatus', debugMode', disabled')
      send == IF <<chatInput', isAgentTyping', connStatus', disabled'>>
                 # <<chatInput, isAgentTyping, connStatus, disabled>>
              THEN now ELSE sendClosure IN
  /\ sendClosure' = send
  /\ keyClosure' = IF <<isAgentTyping', disabled'>> # <<isAgentTyping, disabled>>
                   THEN send ELSE keyClosure

\* What a step of ChatInput leaves alone besides the input, the typing
\* flag, the status and its own state.
InputFrame ==
  /\ UNCHANGED <<msg, hookPc, buffer, actionCount, finalResponse, onActionLog,
                 throwsAt, settled, result>>
  /\ UNCHANGED <<streamVars, relayVars, upVars, auxVars>>
  /\ UNCHANGED <<chatMessages, currentConversation, generatedSDL, agentTemplate,
                 isAgentModalOpen, agentConfig, nanoidNext>>
  /\ UNCHANGED <<modalVars, test>>

\* handleSend as memoized with the values c, up to its await.
HandleSend(c) ==
  IF PassesGuards(c)
  THEN /\ Len(sends) < MaxSends
       /\ SetInputTo("")
       /\ isSending' = TRUE
       /\ sends' = Append(sends, [message |-> TrimText(c.input), outcome |-> "pending",
                                  allowed |-> Allowed])
  ELSE UNCHANGED <<chatInput, lastOp, isSending, sends>>

\* onChange of the textarea, a suggestion, or setInput from elsewhere.
InputSet(value) ==
  /\ SetInputTo(value)
  /\ UNCHANGED <<isAgentTyping, connStatus, disabled, debugMode, isSending, sends>>
  /\ InputFrame
  /\ Rerender

\* The chat interface sets or resets the typing flag.
TypingSet(isTyping) ==
  /\ isAgentTyping' = isTyping
  /\ lastOp' = [name |-> "setAgentTyping"]
  /\ UNCHANGED <<chatInput, connStatus, disabled, debugMode, isSending, sends>>
  /\ InputFrame
  /\ Rerender

\* The connection status changes.
StatusSet(status) ==
  /\ connStatus' = status
  /\ lastOp' = [name |-> "setConnectionStatus"]
  /\ UNCHANGED <<chatInput, isAgentTyping, disabled, debugMode, isSending, sends>>
  /\ InputFrame
  /\ Rerender

\* The parent renders ChatInput with other props.
PropsSet(dis, dbg) ==
  /\ disabled' = dis
  /\ debugMode' = dbg
  /\ UNCHANGED <<chatInput, lastOp, isAgentTyping, connStatus, isSending, sends>>
  /\ InputFrame
  /\ Rerender

\* The send button is clicked: onClick={handleSend}.
ClickSend ==
  /\ CanSendMessage
  /\ HandleSend(sendClosure)
  /\ UNCHANGED <<isAgentTyping, connStatus, disabled, debugMode>>
  /\ InputFrame
  /\ Rerender

\* A key goes down in the textarea: Ctrl/Cmd + Enter calls the handleSend
\* that handleKeyDown holds, Enter calls it when neither disabled nor typing
\* (as handleKeyDown has closed over them), Escape empties the input.
Keys == {"Enter", "CtrlEnter", "Escape"}

HandleKeyDown(key) ==
  /\ ~IsInputDisabled
  /\ CASE key = "CtrlEnter" -> HandleSend(keyClosure)
       [] key = "Enter" ->
            IF ~keyClosure.disabled /\ ~keyClosure.isAgentTyping
            THEN HandleSend(keyClosure)
            ELSE UNCHANGED <<chatInput, lastOp, isSending, sends>>
       [] key = "Escape" -> SetInputTo("") /\ UNCHANGED <<isSending, sends>>
  /\ UNCHANGED <<isAgentTyping, connStatus, disabled, debugMode>>
  /\ InputFrame
  /\ Rerender

\* await onStreamingMessage(...) returns: finally.
SendResolves(i) ==
  /\ i \in 1..Len(sends)
  /\ sends[i].outcome = "pending"
  /\ sends' = [sends EXCEPT ![i].outcome = "resolved"]
  /\ isSending' = FALSE
  /\ UNCHANGED <<chatInput, lastOp, isAgentTyping, connStatus, disabled, debugMode>>
  /\ InputFrame
  /\ Rerender

\* Variant: the catch does not put the message back.
SendRejects_NoRestore(i) ==
  /\ i \in 1..Len(sends)
  /\ sends[i].outcome = "pending"
  /\ sends' = [sends EXCEPT ![i].outcome = "rejected"]
  /\ isSending' = FALSE
  /\ UNCHANGED <<chatInput, lastOp, isAgentTyping, connStatus, disabled, debugMode>>
  /\ InputFrame
  /\ Rerender

\* await onStreamingMessage(...) throws: catch, then finally.
SendRejects(i) ==
  /\ i \in 1..Len(sends)
  /\ sends[i].outcome = "pending"
  /\ sends' = [sends EXCEPT ![i].outcome = "rejected"]
  /\ SetInputTo(sends[i].message)
  /\ isSending' = FALSE
  /\ UNCHANGED <<isAgentTyping, connStatus, disabled, debugMode>>
  /\ InputFrame
  /\ Rerender

\* ------------------------------------------------------ streams as inputs
\* The line texts a stream is made of: every event kind of the wire format
\* (part_006 StreamingResponseData): actions with a sequence_index, without
\* one and without the action field, one of them surrounded by blanks;
\* final responses with two different texts and with the empty text; an
\* error event; an object of another type; a truncated object.
LineTexts ==
  { Rec("action", TRUE, "1"),
    <<SP>> \o Rec("action", TRUE, "2") \o <<SP>>,
    Rec("action", TRUE, "none"), Rec("action", FALSE, ""),
    Rec("final_response", TRUE, "x"), Rec("final_response", TRUE, "y"),
    Rec("final_response", TRUE, ""),
    Rec("error", TRUE, "m"),
    Rec("other", FALSE, ""),
    <<Tok("action", TRUE, "1")>> }

SeqsUpTo(S, n) == UNION { [1..k -> S] : k \in 0..n }

\* The lines joined by newlines; the last one ends with a newline iff nl.
RECURSIVE Join(_, _)
Join(ls, nl) ==
  IF ls = <<>> THEN <<>>
  ELSE IF Len(ls) = 1 THEN Head(ls) \o (IF nl THEN <<NL>> ELSE <<>>)
  ELSE Head(ls) \o <<NL>> \o Join(Tail(ls), nl)

Payloads == { Join(ls, nl) : ls \in SeqsUpTo(LineTexts, MaxLines), nl \in BOOLEAN }

\* The counts at which the callback given as onAction throws.  What it
\* throws is caught with the parse errors and changes no local.
ThrowSets == { {} }

\* ---------------------------------------------------------- specifications
\* sendStreamingMessage reading the body of a 200 response of any server:
\* the body is an arbitrary payload, cut into chunks in every possible way.
InitStream ==
  /\ msg = "text"
  /\ hookPc = "reading"
  /\ connStatus = "connected"
  /\ buffer = <<>>
  /\ actionCount = 0
  /\ finalResponse = ""
  /\ onActionLog = <<>>
  /\ throwsAt \in ThrowSets
  /\ settled = 0
  /\ result = ""
  /\ wire \in Payloads
  /\ received = <<>>
  /\ resStatus = 200
  /\ resWrites = <<>>
  /\ endCount = 1
  /\ req = [sent |-> TRUE, method |-> "POST", message |-> "text"]
  /\ baseUrlSet = TRUE
  /\ relayPc = "detached"
  /\ upKind = "ok"
  /\ upChunks = <<>>
  /\ upFate = "close"
  /\ requests = 1
  /\ fetches = 0
  /\ upRead = <<>>
  /\ decoderPending = FALSE
  /\ elapsed = FALSE
  /\ call2 = NoCall
  /\ NoUi

NextStream ==
  \/ \E k \in 0..Len(wire) : HookRead(k)
  \/ HookReadDone
  \/ HookReadReject

SpecStream == InitStream /\ [][NextStream]_vars

\* The whole path: one sendStreamingMessage call, the relay handler serving
\* it, and an upstream agent of any behaviour.
MaxUpLines  == 2     \* lines in the body the upstream agent sends
MaxUpChunks == 2     \* chunks the upstream body arrives in

UpLineTexts == { Rec("action", TRUE, "1"), Rec("final_response", TRUE, "x"),
                 Rec("error", TRUE, "m") }

UpPayloads == { Join(ls, nl) : ls \in SeqsUpTo(UpLineTexts, MaxUpLines), nl \in BOOLEAN }

\* Every way to cut s into at most n non-empty chunks.
RECURSIVE Chunkings(_, _)
Chunkings(s, n) ==
  IF s = <<>> THEN { <<>> }
  ELSE IF n = 1 THEN { <<s>> }
  ELSE { <<s>> } \cup
       UNION { { <<SubSeq(s, 1, k)>> \o c :
                 c \in Chunkings(SubSeq(s, k + 1, Len(s)), n - 1) } :
               k \in 1..(Len(s) - 1) }

UpBodies == UNION { Chunkings(p, MaxUpChunks) : p \in UpPayloads }

Init ==
  /\ msg \in {"text", "blank"}
  /\ hookPc = "start"
  /\ connStatus = "disconnected"
  /\ buffer = <<>>
  /\ actionCount = 0
  /\ finalResponse = ""
  /\ onActionLog = <<>>
  /\ throwsAt \in ThrowSets
  /\ settled = 0
  /\ result = ""
  /\ wire = <<>>
  /\ received = <<>>
  /\ resStatus = 0
  /\ resWrites = <<>>
  /\ endCount = 0
  /\ req = NoReq
  /\ baseUrlSet \in BOOLEAN
  /\ relayPc = "idle"
  /\ upKind \in {"reject", "non2xx", "nobody", "ok", "hang"}
  /\ IF upKind = "ok"
     THEN upChunks \in UpBodies /\ upFate \in {"close", "fail", "hang"}
     ELSE upChunks = <<>> /\ upFate = "close"
  /\ requests = 0
  /\ fetches = 0
  /\ upRead = <<>>
  /\ decoderPending = FALSE
  /\ elapsed = FALSE
  /\ call2 = NoCall
  /\ NoUi

Next ==
  \/ HookStart
  \/ HookFetchSettle
  \/ HookFetchReject
  \/ \E k \in 0..Len(wire) : HookRead(k)
  \/ HookReadDone
  \/ HookReadReject
  \/ RelayStart
  \/ RelayFetchSettle
  \/ RelayRead
  \/ RelayReadDone
  \/ RelayReadReject
  \/ TimeoutElapses

Spec == Init /\ [][Next]_vars

\* The relay and the hook are scheduled fairly: a continuation whose await
\* has settled runs.  Nothing is assumed of the network or the upstream.
Fairness ==
  /\ WF_vars(HookStart) /\ WF_vars(HookFetchSettle)
  /\ WF_vars(\E k \in 1..Len(wire) : HookRead(k)) /\ WF_vars(HookReadDone)
  /\ WF_vars(RelayStart) /\ WF_vars(RelayFetchSettle) /\ WF_vars(RelayRead)
  /\ WF_vars(RelayReadDone) /\ WF_vars(RelayReadReject)

FairSpec == Spec /\ Fairness

\* The hook alone with a callback that throws at some of its calls.
MaxThrowLines == 3   \* lines in the body read with a throwing callback

ThrowLineTexts == { Rec("action", TRUE, "1"), Rec("action", TRUE, "2"),
                    Rec("final_response", TRUE, "x") }

ThrowPayloads == { Join(ls, TRUE) : ls \in SeqsUpTo(ThrowLineTexts, MaxThrowLines) }

InitThrow ==
  /\ msg = "text"
  /\ hookPc = "reading"
  /\ connStatus = "connected"
  /\ buffer = <<>>
  /\ actionCount = 0
  /\ finalResponse = ""
  /\ onActionLog = <<>>
  /\ throwsAt \in SUBSET (1..MaxThrowLines)
  /\ settled = 0
  /\ result = ""
  /\ wire \in ThrowPayloads
  /\ received = <<>>
  /\ resStatus = 200
  /\ resWrites = <<>>
  /\ endCount = 1
  /\ req = [sent |-> TRUE, method |-> "POST", message |-> "text"]
  /\ baseUrlSet = TRUE
  /\ relayPc = "detached"
  /\ upKind = "ok"
  /\ upChunks = <<>>
  /\ upFate = "close"
  /\ requests = 1
  /\ fetches = 0
  /\ upRead = <<>>
  /\ decoderPending = FALSE
  /\ elapsed = FALSE
  /\ call2 = NoCall
  /\ NoUi

SpecThrow == InitThrow /\ [][NextStream]_vars

\* The relay handler alone: any request, and an upstream agent whose body
\* is any sequence of bytes, among them two-byte characters cut by chunk
\* boundaries and bytes that are not valid UTF-8.
MaxBytes == 3        \* bytes in the upstream body

ByteAlphabet == { LEAD, CONT, NL }

ByteBodies == UNION { Chunkings(b, MaxUpChunks) : b \in SeqsUpTo(ByteAlphabet, MaxBytes) }

Requests == [sent : {TRUE}, method : {"POST", "GET"},
             message : {"text", "blank", "empty", "missing", "number"}]

InitRelay ==
  /\ msg = "text"
  /\ hookPc = "detached"
  /\ connStatus = "disconnected"
  /\ buffer = <<>>
  /\ actionCount = 0
  /\ finalResponse = ""
  /\ onActionLog = <<>>
  /\ throwsAt = {}
  /\ settled = 0
  /\ result = ""
  /\ wire = <<>>
  /\ received = <<>>
  /\ resStatus = 0
  /\ resWrites = <<>>
  /\ endCount = 0
  /\ req \in Requests
  /\ baseUrlSet \in BOOLEAN
  /\ relayPc = "idle"
  /\ upKind \in {"reject", "non2xx", "nobody", "ok", "hang"}
  /\ IF upKind = "ok"
     THEN upChunks \in ByteBodies /\ upFate \in {"close", "fail", "hang"}
     ELSE upChunks = <<>> /\ upFate = "close"
  /\ requests = 1
  /\ fetches = 0
  /\ upRead = <<>>
  /\ decoderPending = FALSE
  /\ elapsed = FALSE
  /\ call2 = NoCall
  /\ NoUi

NextRelay ==
  \/ RelayStart
  \/ RelayFetchSettle
  \/ RelayRead
  \/ RelayReadDone
  \/ RelayReadReject

SpecRelay == InitRelay /\ [][NextRelay]_vars

\* Two calls of sendStreamingMessage in flight together, each with its own
\* response, already complete on the wire; their steps interleave freely.
MaxTwoLines == 2     \* lines in each of the two bodies

FirstLineTexts == { Rec("action", TRUE, "1"), Rec("final_response", TRUE, "x") }

SecondLineTexts == { Rec("action", TRUE, "2"), Rec("final_response", TRUE, "y") }

TwoPayloads(texts) == { Join(ls, TRUE) : ls \in SeqsUpTo(texts, MaxTwoLines) }

InitTwo ==
  /\ msg = "text"
  /\ hookPc = "start"
  /\ connStatus = "disconnected"
  /\ buffer = <<>>
  /\ actionCount = 0
  /\ finalResponse = ""
  /\ onActionLog = <<>>
  /\ throwsAt = {}
  /\ settled = 0
  /\ result = ""
  /\ resStatus \in {200, 500}
  /\ wire \in (IF resStatus = 200 THEN TwoPayloads(FirstLineTexts) ELSE { <<>> })
  /\ received = <<>>
  /\ resWrites = <<>>
  /\ endCount = 1
  /\ req = NoReq
  /\ baseUrlSet = TRUE
  /\ relayPc = "detached"
  /\ upKind = "ok"
  /\ upChunks = <<>>
  /\ upFate = "close"
  /\ requests = 0
  /\ fetches = 0
  /\ upRead = <<>>
  /\ decoderPending = FALSE
  /\ elapsed = FALSE
  /\ \E st \in {200, 500} :
       \E w \in (IF st = 200 THEN TwoPayloads(SecondLineTexts) ELSE { <<>> }) :
         call2 = [NoCall EXCEPT !.pc = "start", !.status = st, !.wire = w]
  /\ NoUi

NextTwo ==
  \/ HookStart
  \/ HookFetchSettle
  \/ \E k \in 0..Len(wire) : HookRead(k)
  \/ HookReadDone
  \/ HookReadReject
  \/ Hook2Start
  \/ Hook2FetchSettle
  \/ \E k \in 0..Len(call2.wire) : Hook2Read(k)
  \/ Hook2ReadDone
  \/ Hook2ReadReject

SpecTwo == InitTwo /\ [][NextTwo]_vars

\* No request is under way: the hook and the relay are left out.
NoExchange ==
  /\ msg = "text"
  /\ hookPc = "detached"
  /\ connStatus = "disconnected"
  /\ buffer = <<>>
  /\ actionCount = 0
  /\ finalResponse = ""
  /\ onActionLog = <<>>
  /\ throwsAt = {}
  /\ settled = 0
  /\ result = ""
  /\ wire = <<>>
  /\ received = <<>>
  /\ resStatus = 0
  /\ resWrites = <<>>
  /\ endCount = 0
  /\ req = NoReq
  /\ baseUrlSet = TRUE
  /\ relayPc = "detached"
  /\ upKind = "ok"
  /\ upChunks = <<>>
  /\ upFate = "close"
  /\ requests = 0
  /\ fetches = 0
  /\ upRead = <<>>
  /\ decoderPending = FALSE
  /\ elapsed = FALSE
  /\ call2 = NoCall

\* The message log within one request: messages are added and updated.
SequenceIndexes == {<<>>, <<0>>, <<1>>}

AgentOptions == [sequenceIndex : SequenceIndexes, status : {"none", "pending"}]

Updates == { [status |-> "completed"], [status |-> "error", content |-> "failed"] }

\* The ids an update may be given: those in the log and one that is not.
UpdateIds == { chatMessages[i].id : i \in 1..Len(chatMessages) } \cup { Nanoid(0) }

InitLog == NoExchange /\ NoUi

NextLog ==
  \/ \E c \in {"hi", "padded"} : AddUserMessage(c)
  \/ \E o \in AgentOptions : AddAgentMessage("hi", o)
  \/ \E e \in {"", "failed"} : AddErrorMessage(e)
  \/ \E id \in UpdateIds, u \in Updates : UpdateExistingMessage(id, u)

SpecLog == InitLog /\ [][NextLog]_vars

\* The chat in its modal: messages, input, SDL and status are written, the
\* modal is opened and closed, the chat is cleared.
CustomConfig == [agent_id |-> "a", base_url |-> "b", timeout |-> 60]

InitChat ==
  /\ NoExchange
  /\ ChatCleared
  /\ isAgentModalOpen \in BOOLEAN
  /\ agentConfig \in {DefaultConfig, CustomConfig}
  /\ nanoidNext = 1
  /\ lastOp = NoOp
  /\ isOpen \in BOOLEAN
  /\ timer = (IF isOpen THEN "none" ELSE "pending")
  /\ clearsSinceClose = 0
  /\ NoInput
  /\ test = NoTest

NextChat ==
  \/ AddUserMessage("hi")
  \/ \E v \in {"", "hi"} : SetInput(v)
  \/ \E b \in BOOLEAN : SetAgentTyping(b)
  \/ \E t \in {"null", "template"} : SetGeneratedSDL("sdl", t)
  \/ \E st \in {"connected", "error"} : SetConnectionStatus(st)
  \/ ClearConversation
  \/ ModalClose
  \/ ModalOpen
  \/ TimerFires

SpecChat == InitChat /\ [][NextChat]_vars

\* The timer fires if it stays pending.
FairChat == SpecChat /\ WF_vars(TimerFires)

\* One sendStreamingMessage call and one testConnection call, one after
\* the other in either order; the response of the API route is given.
InitConn ==
  /\ msg \in {"text", "blank"}
  /\ hookPc = "start"
  /\ connStatus = "disconnected"
  /\ buffer = <<>>
  /\ actionCount = 0
  /\ finalResponse = ""
  /\ onActionLog = <<>>
  /\ throwsAt = {}
  /\ settled = 0
  /\ result = ""
  /\ resStatus \in {0, 200, 500}
  /\ wire \in (IF resStatus = 200 THEN TwoPayloads(FirstLineTexts) ELSE { <<>> })
  /\ received = <<>>
  /\ resWrites = <<>>
  /\ endCount = 1
  /\ req = NoReq
  /\ baseUrlSet = TRUE
  /\ relayPc = "detached"
  /\ upKind = "ok"
  /\ upChunks = <<>>
  /\ upFate = "close"
  /\ requests = 0
  /\ fetches = 0
  /\ upRead = <<>>
  /\ decoderPending = FALSE
  /\ elapsed = FALSE
  /\ call2 = NoCall
  /\ NoStore /\ NoModal /\ NoInput
  /\ test = [NoTest EXCEPT !.pc = "start"]

NextConn ==
  \/ SendStart
  \/ HookFetchSettle
  \/ HookFetchReject
  \/ \E k \in 0..Len(wire) : HookRead(k)
  \/ HookReadDone
  \/ HookReadReject
  \/ TestStart
  \/ \E kind \in {"reject", "notok", "ok"} : TestFetchSettle(kind)
  \/ \E kind \in {"reject", "connected", "other"} : TestJsonSettle(kind)

SpecConn == InitConn /\ [][NextConn]_vars

\* ChatInput, mounted with an empty input: the user types, clicks and
\* presses keys, the typing flag, the status and the props change, and the
\* calls of onStreamingMessage end either way.
InitInput ==
  /\ NoExchange
  /\ NoStore /\ NoModal
  /\ disabled = FALSE
  /\ debugMode \in BOOLEAN
  /\ isSending = FALSE
  /\ sendClosure = Current
  /\ keyClosure = Current
  /\ sends = <<>>
  /\ test = NoTest

NextInput ==
  \/ \E v \in InputTexts : InputSet(v)
  \/ \E b \in BOOLEAN : TypingSet(b)
  \/ \E st \in {"connected", "error"} : StatusSet(st)
  \/ \E dis \in BOOLEAN, dbg \in BOOLEAN : PropsSet(dis, dbg)
  \/ ClickSend
  \/ \E key \in Keys : HandleKeyDown(key)
  \/ \E i \in 1..MaxSends : SendResolves(i)
  \/ \E i \in 1..MaxSends : SendRejects(i)

SpecInput == InitInput /\ [][NextInput]_vars

\* ------------------------------------------------- vocabulary of the claims
Settled == hookPc \in {"resolved", "rejected"}

\* The lines of a text that are terminated by a newline, in order.
CompleteLines(text) == Front(Split(text))

\* What a line says, read off its text.
EventOf(l) == JSONParse(Trim(l))
IsAction(l)   == EventOf(l).ok /\ EventOf(l).type = "action" /\ EventOf(l).has
IsFinal(l)    == EventOf(l).ok /\ EventOf(l).type = "final_response" /\ EventOf(l).has
IsError(l)    == EventOf(l).ok /\ EventOf(l).type = "error"
IsMalformed(l) == Trim(l) # <<>> /\ (~EventOf(l).ok \/ EventOf(l).type = "other")

ActionsOf(ls) ==
  LET as == SelectSeq(ls, IsAction) IN
  [i \in 1..Len(as) |-> [sequence_index |-> EventOf(as[i]).v]]

Delivered == [i \in 1..Len(onActionLog) |-> onActionLog[i].action]

Locals0 == [actionCount |-> 0, finalResponse |-> "", log |-> <<>>]

\* ------------------------------------------------------------------- claims
\* C1: a well-formed line of type 'error' is escalated: once such a line has
\* been received the call is rejected with the message of that event, and
\* onAction has been invoked for no line after it.
C1_ErrorEscalated ==
  LET ls == CompleteLines(received)
      errs == { i \in 1..Len(ls) : IsError(ls[i]) } IN
  errs # {} =>
    LET first == CHOOSE i \in errs : \A j \in errs : i <= j
        e == EventOf(ls[first]) IN
    /\ hookPc = "rejected"
    /\ result = (IF Truthy(e) THEN e.v ELSE "Agent error")
    /\ Delivered = ActionsOf(SubSeq(ls, 1, first - 1))

\* C2: when the upstream agent answers the relay with a non-2xx status, the
\* call never resolves normally: it settles by rejecting, with no action
\* delivered.
C2_Non2xxRejects ==
  (upKind = "non2xx" /\ Settled) => (hookPc = "rejected" /\ onActionLog = <<>>)

\* C3: the relay ends the response at most once and has ended it when the
\* handler is done; after an upstream failure on an opened stream it has
\* written exactly one synthesized error record, as its last write, and it
\* writes none before it is done.
UpstreamFailed ==
  resStatus = 200 /\ (upKind \in {"reject", "non2xx", "nobody"} \/ upFate = "fail")
ErrorWrites == { i \in 1..Len(resWrites) : resWrites[i].kind = "error" }
C3_OneTerminalError ==
  /\ endCount <= 1
  /\ relayPc = "done" => endCount = 1
  /\ relayPc # "done" => ErrorWrites = {}
  /\ (relayPc = "done" /\ UpstreamFailed) =>
       /\ Cardinality(ErrorWrites) = 1
       /\ Last(resWrites).kind = "error"
       /\ Last(resWrites).text \in { ErrorRecord(m) :
            m \in {"fetch failed", "Agent proxy error", "read failed",
                   "No response stream available from agent"} }
C3_Witness ==
  /\ relayPc = "done" /\ upKind = "ok" /\ upFate = "fail"
  /\ Len(resWrites) >= 2 /\ resWrites[1].kind = "chunk"
  /\ Last(resWrites).kind = "error" /\ endCount = 1

\* C4: the call settles at most once, it is settled exactly when it has
\* resolved or rejected, and once it has settled neither its outcome nor
\* the list of onAction calls changes.
C4_SettlesOnce ==
  /\ [](settled <= 1 /\ (Settled <=> settled = 1))
  /\ [][settled = 1 => UNCHANGED <<hookPc, result, settled, onActionLog>>]_vars
C4_Witness ==
  /\ hookPc = "rejected" /\ settled = 1
  /\ Len(onActionLog) >= 1
  /\ \E i \in 1..Len(CompleteLines(wire)) : IsAction(CompleteLines(wire)[i])

\* C5: every opened stream eventually gets its terminal signal: the relay
\* ends the response and the call settles.
C5_TerminalSignal ==
  (resStatus = 200) ~> (endCount > 0 /\ Settled)

\* C6: the count passed with the k-th onAction call is k, whatever the
\* sequence_index values of the events are.
C6_ArrivalCount ==
  \A k \in 1..Len(onActionLog) : onActionLog[k].count = k
\* two deliveries whose sequence_index values arrive in descending order,
\* after an action line that carried no action
C6_Witness ==
  /\ Len(onActionLog) >= 2
  /\ onActionLog[1].action.sequence_index = "2"
  /\ onActionLog[2].action.sequence_index = "1"
  /\ \E i \in 1..Len(CompleteLines(received)) :
       LET e == EventOf(CompleteLines(received)[i]) IN
       e.ok /\ e.type = "action" /\ ~e.has

\* C7: the actions handed to onAction are, at every moment, exactly the
\* actions of the complete lines received so far, in the order of receipt
\* and with their sequence_index unchanged.
C7_ReceiptOrder ==
  Delivered = ActionsOf(CompleteLines(received))
\* two deliveries with the same sequence_index, made while later lines are
\* still in flight
C7_Witness ==
  /\ hookPc = "reading" /\ wire # <<>>
  /\ Len(onActionLog) = 2
  /\ onActionLog[1].action = onActionLog[2].action
  /\ \E i \in 1..Len(Split(wire)) : IsAction(Split(wire)[i])

\* C8: whatever the chunks were, the calls made to onAction and the locals
\* are those of handing over the text received so far as one chunk, and the
\* resolved value is that of the whole payload handed over as one chunk.
C8_ChunkIndependence ==
  LET one == ProcessChunk(Locals0, <<>>, received, throwsAt) IN
  /\ onActionLog = one.st.log
  /\ actionCount = one.st.actionCount
  /\ hookPc = "reading" => (finalResponse = one.st.finalResponse /\ buffer = one.buffer)
  /\ hookPc = "resolved" => result = ProcessRemaining(one.st, one.buffer).finalResponse
  /\ hookPc = "rejected" => result = "network error"
\* a chunk ended between the opening and the closing brace of an object,
\* after an earlier action was delivered
C8_Witness ==
  /\ hookPc = "reading"
  /\ Len(onActionLog) >= 1
  /\ Len(buffer) = 1 /\ buffer[1].t = "final_response"
  /\ wire # <<>> /\ Head(wire) = CLOSE

\* C9: malformed lines (not JSON, or JSON of another type) leave no trace:
\* the calls made to onAction, the accumulated response and the resolved
\* value are those of the stream without its malformed lines, and the call
\* is rejected only when the transport fails.
WithoutMalformed(ls) == SelectSeq(ls, LAMBDA l : ~IsMalformed(l))
C9_MalformedSkipped ==
  LET parts == Split(received)
      clean == ProcessLines(Locals0, WithoutMalformed(Front(parts)), throwsAt)
      rest  == IF IsMalformed(Last(parts)) THEN <<>> ELSE Last(parts) IN
  /\ onActionLog = clean.log
  /\ hookPc = "reading" => finalResponse = clean.finalResponse
  /\ hookPc = "resolved" => result = ProcessRemaining(clean, rest).finalResponse
  /\ hookPc = "rejected" => result = "network error"
\* resolved after a line that is not JSON, followed by an action and a final
\* response that both took effect
C9_Witness ==
  LET ls == CompleteLines(received) IN
  /\ hookPc = "resolved" /\ result = "x"
  /\ Len(ls) = 3 /\ Len(onActionLog) = 1
  /\ ~EventOf(ls[1]).ok /\ IsAction(ls[2]) /\ IsFinal(ls[3])

\* C10: when the stream holds two or more final_response events and no
\* error event, the resolved value is the response text of the last one.
AllLines(text) == SelectSeq(Split(text), LAMBDA l : Trim(l) # <<>>)
C10_LastWriteWins ==
  LET ls == AllLines(received)
      fs == SelectSeq(ls, IsFinal) IN
  (hookPc = "resolved" /\ Len(fs) >= 2 /\ \A i \in 1..Len(ls) : ~IsError(ls[i]))
    => result = EventOf(Last(fs)).v

\* C11: a non-empty text left in the buffer at end of stream is processed
\* as a complete last line: the calls made to onAction and the resolved
\* value are those of the same payload followed by a newline.
C11_ResidualFlushed ==
  (hookPc = "resolved" /\ Trim(Last(Split(received))) # <<>>) =>
    LET r == ProcessChunk(Locals0, <<>>, received \o <<NL>>, throwsAt) IN
    /\ onActionLog = r.st.log
    /\ result = r.st.finalResponse

\* C12: a final_response does not end the request: the call resolves only
\* when the stream has ended and was read to its end, every action line
\* received is delivered, also after a final_response, and for the events
\* [action, action, final_response] the calls carry the counts 1 and 2 in
\* the order of the lines and the resolved value is the final response.
C12_EndOfStreamTerminates ==
  LET ls == CompleteLines(received)
      as == SelectSeq(ls, IsAction) IN
  /\ hookPc = "resolved" => (wire = <<>> /\ endCount > 0)
  /\ Len(onActionLog) = Len(as)
  /\ (hookPc = "resolved" /\ Len(ls) = 3 /\ IsAction(ls[1]) /\ IsAction(ls[2])
        /\ IsFinal(ls[3]) /\ Truthy(EventOf(ls[3])) /\ Last(Split(received)) = <<>>)
     => /\ onActionLog = << [action |-> [sequence_index |-> EventOf(ls[1]).v], count |-> 1],
                            [action |-> [sequence_index |-> EventOf(ls[2]).v], count |-> 2] >>
        /\ result = EventOf(ls[3]).v
\* a final response was received and took effect, an action line after it
\* was delivered, and the call is still reading
C12_Witness ==
  LET ls == CompleteLines(received) IN
  /\ hookPc = "reading" /\ wire # <<>>
  /\ Len(ls) = 2 /\ IsFinal(ls[1]) /\ IsAction(ls[2])
  /\ finalResponse = "y" /\ Len(onActionLog) = 1

\* C13: a stream that ends without a final_response event and without an
\* error event resolves with the empty string, however many actions were
\* delivered; the end of the stream always lets the call return, and the
\* call is rejected only when the transport fails.
C13_SilentCompletion ==
  LET ls == AllLines(received)
      quiet == \A i \in 1..Len(ls) :
                 ~(EventOf(ls[i]).ok /\ EventOf(ls[i]).type \in {"final_response", "error"}) IN
  /\ (hookPc = "resolved" /\ quiet) => result = ""
  /\ (hookPc = "reading" /\ wire = <<>> /\ endCount > 0) => ENABLED HookReadDone
  /\ hookPc = "rejected" => result = "network error"
\* resolved with the empty string after three actions were delivered
C13_Witness ==
  /\ hookPc = "resolved" /\ result = ""
  /\ Len(onActionLog) = 3
  /\ \A i \in 1..Len(AllLines(received)) : IsAction(AllLines(received)[i])

\* C14: on a successful upstream response the relay makes one write per
\* chunk read, each write carrying the bytes of its chunk, in order; once
\* the upstream has closed, no error record was written and the bytes
\* written are the bytes read.
RECURSIVE Flatten(_)
Flatten(ss) == IF ss = <<>> THEN <<>> ELSE Head(ss) \o Flatten(Tail(ss))
ChunkWrites ==
  LET cw == SelectSeq(resWrites, LAMBDA w : w.kind = "chunk") IN
  [i \in 1..Len(cw) |-> cw[i].text]
C14_VerbatimForwarding ==
  (resStatus = 200 /\ upKind = "ok") =>
    /\ ChunkWrites = upRead
    /\ (relayPc = "done" /\ upFate = "close") =>
         (ErrorWrites = {} /\ Flatten(ChunkWrites) = Flatten(upRead))

\* C15: when the timeout ceiling passes while the relay waits on the
\* upstream, the relay stops waiting: it writes one error record and ends
\* the response.
C15_TimeoutEndsStream ==
  (elapsed /\ relayPc \in {"fetch", "read"})
    ~> (relayPc = "done" /\ endCount = 1 /\ Cardinality(ErrorWrites) = 1)

\* C16: once the downstream client is gone, the relay starts no further
\* upstream read: no step of it acquires the reader and reads, or takes a
\* chunk and reads on.
ClientGone == hookPc = "rejected" /\ result = "network error"
C16_ReleasesUpstream ==
  [][ClientGone => ~(relayPc' = "read" /\ (relayPc = "fetch" \/ upRead' # upRead))]_vars

\* C17: for one request sendStreamingMessage sends exactly one request to
\* the API route and the relay makes at most one upstream fetch, exactly
\* one once it has opened the stream; this stays so after every failure.
C17_NoRetry ==
  /\ requests <= 1 /\ fetches <= 1
  /\ (msg = "text" /\ hookPc # "start") => requests = 1
  /\ msg = "blank" => requests = 0
  /\ resStatus = 200 => fetches = 1
  /\ resStatus # 200 => fetches = 0
\* the upstream fetch was rejected, the relay is done and the call settled
C17_Witness ==
  /\ upKind = "reject" /\ relayPc = "done" /\ Settled
  /\ Cardinality(ErrorWrites) = 1
  /\ requests = 1 /\ fetches = 1

\* C18: a request that fails validation gets its status (405 when the
\* method is not POST, else 400 when the message is missing, not a string
\* or blank, else 500 when no base URL is set), one JSON body and the end
\* of the response; no streaming head or chunk is written and no upstream
\* fetch is made.
C18_RejectedBeforeStream ==
  LET badMethod  == req.method # "POST"
      badMessage == req.message \in {"missing", "empty", "number", "blank"}
      expected   == IF badMethod THEN 405 ELSE IF badMessage THEN 400 ELSE 500 IN
  (relayPc # "idle" /\ (badMethod \/ badMessage \/ ~baseUrlSet)) =>
    /\ relayPc = "done"
    /\ resStatus = expected
    /\ Len(resWrites) = 1 /\ resWrites[1].kind = "json"
    /\ wire = <<>>
    /\ endCount = 1
    /\ fetches = 0 /\ upRead = <<>>
\* a POST with a well-formed message and no base URL, answered with 500
C18_Witness ==
  /\ relayPc = "done" /\ resStatus = 500
  /\ req.method = "POST" /\ req.message = "text" /\ ~baseUrlSet
  /\ upKind = "ok" /\ upChunks # <<>>

\* C19: with two calls in flight and their chunks arriving in any order,
\* the onAction calls, the count and the framing buffer of each call are
\* those of that call run alone on what it has received, and so is the
\* value it resolves with.
Alone(text) == ProcessChunk(Locals0, <<>>, text, {})
C19_CallsIsolated ==
  LET a1 == Alone(received)
      a2 == Alone(call2.received) IN
  /\ onActionLog = a1.st.log /\ actionCount = a1.st.actionCount
  /\ buffer = a1.buffer
  /\ hookPc = "resolved" => result = ProcessRemaining(a1.st, a1.buffer).finalResponse
  /\ call2.log = a2.st.log /\ call2.actionCount = a2.st.actionCount
  /\ call2.buffer = a2.buffer
  /\ call2.pc = "resolved" => call2.result = ProcessRemaining(a2.st, a2.buffer).finalResponse
\* both calls are reading, each has delivered an action and holds the
\* beginning of its next line in its buffer
C19_Witness ==
  /\ hookPc = "reading" /\ call2.pc = "reading"
  /\ Len(onActionLog) = 1 /\ Len(call2.log) = 1
  /\ buffer # <<>> /\ call2.buffer # <<>>
  /\ wire # <<>> /\ call2.wire # <<>>

\* C20: nothing one call writes is written by another call in flight at
\* the same time: while one call is between its start and its end, no step
\* of the other call changes the connection status.
InFlight(pc) == pc \in {"fetching", "reading"}
C20_NothingShared ==
  [][ /\ (InFlight(hookPc) /\ call2' # call2) => connStatus' = connStatus
      /\ (InFlight(call2.pc) /\ hookPc' # hookPc) => connStatus' = connStatus ]_vars

\* C24: the error record written after an upstream failure is a line of
\* its own: what was written before it is empty or ends with a newline.
WrittenBefore(i) == Flatten([j \in 1..(i - 1) |-> resWrites[j].text])
C24_ErrorOnOwnLine ==
  \A i \in ErrorWrites :
    WrittenBefore(i) = <<>> \/ Last(WrittenBefore(i)) = NL

\* C27: once the request has passed validation the status of the response
\* is 200 whatever the upstream does: a status other than 200 comes only
\* from the validation, and the hook's test of response.ok fails only then.
C27_FailuresInBand ==
  /\ resStatus \in {0, 200, 500}
  /\ resStatus = 500 => (~baseUrlSet /\ fetches = 0)
  /\ (relayPc \notin {"idle", "detached"} /\ baseUrlSet) => resStatus = 200
  /\ result = "HTTP error" => ~baseUrlSet
  /\ UpstreamFailed => result # "HTTP error"
\* the upstream answered with a status that is not ok; the response has
\* status 200 and carries the error record, and the hook is past its test
C27_Witness ==
  /\ upKind = "non2xx" /\ relayPc = "done"
  /\ resStatus = 200 /\ Cardinality(ErrorWrites) = 1
  /\ hookPc \in {"reading", "resolved"}

\* C26: a callback that throws does not reject the call and does not stop
\* the loop: every action line received is delivered, the k-th call carries
\* the count k whether or not an earlier call threw, and the call is
\* rejected only when the transport fails.
C26_ThrowingCallback ==
  LET as == SelectSeq(CompleteLines(received), IsAction) IN
  /\ Len(onActionLog) = Len(as)
  /\ \A k \in 1..Len(onActionLog) :
       /\ onActionLog[k].count = k
       /\ onActionLog[k].action.sequence_index = EventOf(as[k]).v
  /\ actionCount = Len(onActionLog)
  /\ hookPc = "rejected" => result = "network error"
  /\ (hookPc = "reading" /\ wire = <<>>) => ENABLED HookReadDone
\* the first call threw, two more were made, and the call resolved
C26_Witness ==
  /\ 1 \in throwsAt /\ hookPc = "resolved"
  /\ Len(onActionLog) = 3 /\ onActionLog[3].count = 3

\* C21: while messages are only added and updated the log is append-only:
\* an add leaves the entries there were in place and puts the new message
\* after them, an update keeps the length and the order and changes only
\* the entries whose id is the given one, which take the given fields; an
\* id that no entry has changes nothing.
IsPrefix(a, b) == Len(a) <= Len(b) /\ SubSeq(b, 1, Len(a)) = a
C21_AppendOnly ==
  [][ /\ Len(chatMessages') >= Len(chatMessages)
      /\ lastOp'.name = "add" =>
           /\ Len(chatMessages') = Len(chatMessages) + 1
           /\ IsPrefix(chatMessages, chatMessages')
           /\ Last(chatMessages') = lastOp'.message
      /\ lastOp'.name = "update" =>
           /\ Len(chatMessages') = Len(chatMessages)
           /\ \A i \in 1..Len(chatMessages) :
                IF chatMessages[i].id = lastOp'.id
                THEN \A f \in DOMAIN chatMessages[i] :
                       chatMessages'[i][f] = IF f \in DOMAIN lastOp'.updates
                                             THEN lastOp'.updates[f]
                                             ELSE chatMessages[i][f]
                ELSE chatMessages'[i] = chatMessages[i]
           /\ lastOp'.id = Nanoid(0) => chatMessages' = chatMessages ]_vars
\* the first of three messages was updated after the others were added
C21_Witness ==
  /\ Len(chatMessages) = 3
  /\ lastOp.name = "update" /\ lastOp.id = chatMessages[1].id
  /\ chatMessages[1].status = "error" /\ chatMessages[1].type = "user"
  /\ chatMessages[2].id # chatMessages[1].id

\* C23: the messages of the log have pairwise different ids.
C23_UniqueIds ==
  \A i, j \in 1..Len(chatMessages) :
    i # j => chatMessages[i].id # chatMessages[j].id

\* C22: after isOpen has become false the timer is pending until clearChat
\* has run, which it does at most once for that close and then resets the
\* chat; if isOpen stays false it does run; when isOpen becomes true the
\* timer is cancelled, that step clears nothing, and no timer is pending
\* while the modal is open.
C22_ClearAfterClose ==
  /\ [](isOpen => timer = "none")
  /\ [](clearsSinceClose <= 1)
  /\ [](~isOpen => (timer = "pending" <=> clearsSinceClose = 0))
  /\ [][clearsSinceClose' = clearsSinceClose + 1 => (~isOpen /\ ChatCleared')]_vars
  /\ [][(~isOpen /\ isOpen') => (timer' = "none" /\ UNCHANGED storeVars)]_vars
  /\ ((~isOpen /\ timer = "pending") ~> (isOpen \/ clearsSinceClose = 1))
\* the modal was closed with a chat in it and the chat has been cleared
C22_Witness ==
  /\ ~isOpen /\ timer = "none" /\ clearsSinceClose = 1
  /\ lastOp.name = "clear" /\ ChatCleared /\ nanoidNext > 1

\* C30: a step of clearChatAtom leaves the messages, the input, the typing
\* flag, the SDL, the template and the conversation at their initial values
\* and does not change the connection status, the modal-open flag or the
\* configuration.
C30_ClearResets ==
  [][lastOp'.name = "clear" =>
       /\ ChatCleared'
       /\ UNCHANGED <<connStatus, isAgentModalOpen, agentConfig>>]_vars
\* cleared after messages were added, with status, flag and configuration
\* away from their initial values
C30_Witness ==
  /\ lastOp.name = "clear" /\ ChatCleared /\ nanoidNext > 1
  /\ connStatus = "connected" /\ isAgentModalOpen /\ agentConfig = CustomConfig

C28_SendGuarded ==
  \A i \in 1..Len(sends) : sends[i].allowed

\* C29: the step that calls onStreamingMessage leaves the input empty and
\* isSending set; the step in which the call ends leaves isSending false,
\* and the input equal to the message that was sent if the call was rejected.
C29_SendLifecycle ==
  [][ /\ Len(sends') > Len(sends) =>
           (chatInput' = "" /\ isSending' /\ Last(sends').outcome = "pending")
      /\ \A i \in 1..Len(sends) :
           (sends[i].outcome = "pending" /\ sends'[i].outcome # "pending") =>
             /\ ~isSending'
             /\ sends'[i].outcome = "rejected" => chatInput' = sends[i].message ]_vars
\* a padded text was sent with the button, the call was rejected and the
\* trimmed text is back in the input
C29_Witness ==
  /\ Len(sends) = 1 /\ sends[1].outcome = "rejected" /\ sends[1].allowed
  /\ sends[1].message = "hi" /\ chatInput = "hi" /\ ~isSending
  /\ lastOp.name = "setInput"

====
